---- MODULE Spec2Model ----
(***************************************************************************)
(* Coding clinic booking system (clinic.py, calendar_sync.py).             *)
(*                                                                         *)
(* One CLI invocation is one command: the process loads the ledger from    *)
(* bookings.json, runs one handler of ClinicBookingSystem against the      *)
(* calendar service and, where the handler says so, saves the ledger back. *)
(* Each handler is one action.  Every calendar call may succeed or fail.   *)
(***************************************************************************)
EXTENDS Integers, Sequences, FiniteSets, TLC

VARIABLES
    bookings,   \* self.bookings at the end of the last command (a list of dicts)
    stored,     \* the content of bookings.json
    calendar,   \* the live events of the clinic calendar
    nextId,     \* the next event id the calendar service issues
    limit,      \* the number of events the calendar service creates in this run
    last,       \* the last command: arguments, outcome, calendar calls, ledger before
    prebooking, \* history: per booked key, <<the record before it was booked>>
    students,   \* history: per key, the students who booked it since its last cancel
    config,     \* self.config as saved in clinic_config.json
    trail       \* history: the commands of a lifecycle scenario, with the ledgers

vars == <<bookings, stored, calendar, nextId, limit, last, prebooking, students, config,
          trail>>

\* ---------------------------------------------------------------- bounds
\* Number of events the calendar service creates in one run.
MaxEvents == 3

\* The same, in the runs that book one slot twice.
MaxRebookEvents == 4

\* Number of records in the ledgers view is run on.
MaxSlots == 3

\* ---------------------------------------------------------------- inputs
\* --date and --time values that datetime.strptime("%Y-%m-%d %H:%M") accepts.
Dates == {"2026-02-15", "2026-02-16"}
Times == {"10:00"}
Keys == Dates \X Times
\* The --name and --email a volunteer gives; argparse accepts any string for
\* --email, the empty string included.
Volunteers == {<<"Ann", "ann@x.com">>, <<"Bob", "">>}
\* The --email a student books with.
Students == {"stu@x.com", "ann@x.com"}
\* The --email given to cancel-booking and cancel-volunteer.
Emails == {v[2] : v \in Volunteers} \cup Students
Subjects == {"Loops"}
Descriptions == {"need help"}
\* datetime.now().isoformat() as read by book.
Timestamps == {"2026-02-01T09:00:00"}

\* ---------------------------------------------------------------- values
\* A key that a dict does not hold (dict.get gives None, dict.pop removed it).
Absent == "<absent>"
\* create_event's None: no event id.
NoEvent == 0

\* Python truthiness of a dict.get(...) result holding a string or None.
Truthy(s) == s # Absent /\ s # ""

\* Python truthiness of an event id (None is falsy, an issued id is not).
TruthyId(id) == id # NoEvent

\* view --date: a date with slots, a date without, or no filter (None).
DateFilters == Dates \cup {"2026-02-17", Absent}
\* view --status: one of argparse's choices, or no filter (None).
StatusFilters == {"available", "booked", "empty", Absent}

\* ---------------------------------------------------------------- ledger
\* next((b for b in self.bookings if b['date'] == date and b['time'] == time), None):
\* the index of the first record of the key, 0 for None.
Find(b, date, time) ==
    LET hits == {i \in 1..Len(b) : b[i].date = date /\ b[i].time = time}
    IN  IF hits = {} THEN 0 ELSE CHOOSE i \in hits : \A j \in hits : i <= j

\* list.remove(existing): the list without its element at index i.
RemoveAt(b, i) == [j \in 1..(Len(b) - 1) |-> IF j < i THEN b[j] ELSE b[j + 1]]

\* The status of a key in a ledger; "empty" is the absence of a record.
StatusOf(b, date, time) ==
    IF Find(b, date, time) = 0 THEN "empty" ELSE b[Find(b, date, time)].status

\* ---------------------------------------------------------------- calendar service
\* CalendarSync.create_event: the id of the created event, or None when the
\* insert raised.
CreateOutcomes == IF nextId <= limit THEN BOOLEAN ELSE {FALSE}

CreateEvent(cal, id, date, time, ok) ==
    IF ok THEN cal \cup {[id |-> id, date |-> date, time |-> time]} ELSE cal

CreatedId(id, ok) == IF ok THEN id ELSE NoEvent

\* CalendarSync.delete_event: True when the delete went through, False when it
\* raised; an event that is not live cannot be deleted.
DeleteOutcomes(cal, id) == IF \E e \in cal : e.id = id THEN BOOLEAN ELSE {FALSE}

DeleteEvent(cal, id, ok) == IF ok THEN {e \in cal : e.id # id} ELSE cal

CreateCall(id, ok) == [fn |-> "create", id |-> CreatedId(id, ok), ok |-> ok]
DeleteCall(id, ok) == [fn |-> "delete", id |-> id, ok |-> ok]

\* if booking.get('event_id'): self.sync.delete_event(...): the call is made
\* only for a truthy id, and its result is not looked at.
OldEventOutcomes(cal, id) == IF TruthyId(id) THEN DeleteOutcomes(cal, id) ELSE {FALSE}

DeleteOldEvent(cal, id, ok) == IF TruthyId(id) THEN DeleteEvent(cal, id, ok) ELSE cal

OldEventCalls(id, ok) == IF TruthyId(id) THEN <<DeleteCall(id, ok)>> ELSE <<>>

\* ---------------------------------------------------------------- command frame
\* The end of a command: the in-memory ledger, the file when save_bookings ran,
\* the calendar, and the record of what the command did.
Finish(op, date, time, email, outcome, calls, after, saved, cal, nid) ==
    /\ bookings' = after
    /\ prebooking' = [k \in Keys |->
                        IF StatusOf(after, k[1], k[2]) # "booked" THEN <<>>
                        ELSE IF StatusOf(stored, k[1], k[2]) # "booked"
                             THEN <<stored[Find(stored, k[1], k[2])]>>
                        ELSE prebooking[k]]
    /\ students' = [k \in Keys |->
                      IF k # <<date, time>> \/ outcome # "ok" THEN students[k]
                      ELSE IF op = "book" THEN Append(students[k], email)
                      ELSE IF op \in {"cancel-booking", "cancel-volunteer"} THEN <<>>
                      ELSE students[k]]
    /\ stored' = IF saved THEN after ELSE stored
    /\ calendar' = cal
    /\ nextId' = nid
    /\ limit' = limit
    /\ last' = [op |-> op, date |-> date, time |-> time, email |-> email,
                outcome |-> outcome, calls |-> calls, pre |-> stored,
                prebooked |-> prebooking[<<date, time>>]]

\* A command that returns before any calendar call and any mutation.
Reject(op, date, time, email, outcome) ==
    Finish(op, date, time, email, outcome, <<>>, stored, FALSE, calendar, nextId)

\* ---------------------------------------------------------------- volunteer
\* The two early returns of volunteer: "none" when neither is taken.
VolunteerRejection(b, date, time, email) ==
    LET i == Find(b, date, time)
    IN  IF i # 0 /\ b[i].volunteer_email = email THEN "already_volunteered"
        ELSE IF i # 0 /\ Truthy(b[i].volunteer_email) THEN "slot_has_volunteer"
        ELSE "none"

\* The booking dict volunteer saves.
VolunteerRecord(date, time, name, email, id) ==
    [date |-> date, time |-> time, status |-> "available",
     volunteer_name |-> name, volunteer_email |-> email, event_id |-> id,
     student_email |-> Absent, subject |-> Absent, description |-> Absent,
     booked_at |-> Absent]

\* VolunteerLedger that appends without removing the existing record.
VolunteerLedger_NoRemove(b, rec) == Append(b, rec)

\* if existing: self.bookings.remove(existing); self.bookings.append(booking)
VolunteerLedger(b, rec) ==
    LET i == Find(b, rec.date, rec.time)
    IN  Append(IF i # 0 THEN RemoveAt(b, i) ELSE b, rec)

Volunteer(date, time, name, email) ==
    LET b == stored
        rej == VolunteerRejection(b, date, time, email)
    IN  IF rej # "none"
        THEN Reject("volunteer", date, time, email, rej)
        ELSE \E ok \in CreateOutcomes :
               LET cal == CreateEvent(calendar, nextId, date, time, ok)
                   calls == <<CreateCall(nextId, ok)>>
               IN  IF ~TruthyId(CreatedId(nextId, ok))
                   THEN Finish("volunteer", date, time, email, "create_failed",
                               calls, b, FALSE, cal, nextId)
                   ELSE Finish("volunteer", date, time, email, "ok", calls,
                               VolunteerLedger(b, VolunteerRecord(date, time, name, email, nextId)),
                               TRUE, cal, nextId + 1)

\* ---------------------------------------------------------------- book
\* BookRejection that reports a missing slot as a slot without a volunteer.
BookRejection_MissingIsNoVolunteer(b, date, time) ==
    LET i == Find(b, date, time)
    IN  IF i = 0 THEN "no_volunteer"
        ELSE IF b[i].status # "available"
             THEN IF b[i].status = "booked" THEN "already_booked" ELSE "no_volunteer"
        ELSE "none"

\* The early returns of book: "none" when none is taken.
BookRejection(b, date, time) ==
    LET i == Find(b, date, time)
    IN  IF i = 0 THEN "no_slot"
        ELSE IF b[i].status # "available"
             THEN IF b[i].status = "booked" THEN "already_booked" ELSE "no_volunteer"
        ELSE "none"

\* BookedRecord that does not store the subject.
BookedRecord_NoSubject(rec, student_email, subject, description, id, now) ==
    [rec EXCEPT !.status = "booked", !.student_email = student_email,
                !.description = description, !.event_id = id, !.booked_at = now]

\* The in-place update of the booking dict by book.
BookedRecord(rec, student_email, subject, description, id, now) ==
    [rec EXCEPT !.status = "booked", !.student_email = student_email,
                !.subject = subject, !.description = description,
                !.event_id = id, !.booked_at = now]

Book(date, time, subject, description, student_email, now) ==
    LET b == stored
        i == Find(b, date, time)
        rej == BookRejection(b, date, time)
    IN  IF rej # "none"
        THEN Reject("book", date, time, student_email, rej)
        ELSE \E dok \in OldEventOutcomes(calendar, b[i].event_id) :
             \E ok \in CreateOutcomes :
               LET cal1 == DeleteOldEvent(calendar, b[i].event_id, dok)
                   cal == CreateEvent(cal1, nextId, date, time, ok)
                   calls == OldEventCalls(b[i].event_id, dok) \o <<CreateCall(nextId, ok)>>
               IN  IF ~TruthyId(CreatedId(nextId, ok))
                   THEN Finish("book", date, time, student_email, "create_failed",
                               calls, b, FALSE, cal, nextId)
                   ELSE Finish("book", date, time, student_email, "ok", calls,
                               [b EXCEPT ![i] = BookedRecord(b[i], student_email, subject,
                                                             description, nextId, now)],
                               TRUE, cal, nextId + 1)

\* ---------------------------------------------------------------- cancel
\* CancelRejection without the check that a volunteer's slot is not booked.
CancelRejection_NoBookedCheck(b, date, time, email, is_volunteer) ==
    LET i == Find(b, date, time)
    IN  IF i = 0 THEN "no_slot"
        ELSE IF is_volunteer
             THEN IF b[i].volunteer_email # email THEN "not_your_slot" ELSE "none"
             ELSE IF b[i].status # "booked" THEN "not_booked"
                  ELSE IF b[i].student_email # email THEN "not_your_booking"
                  ELSE "none"

\* CancelRejection without the comparison of the email with the student's.
CancelRejection_NoStudentCheck(b, date, time, email, is_volunteer) ==
    LET i == Find(b, date, time)
    IN  IF i = 0 THEN "no_slot"
        ELSE IF is_volunteer
             THEN IF b[i].volunteer_email # email THEN "not_your_slot"
                  ELSE IF b[i].status = "booked" THEN "slot_is_booked"
                  ELSE "none"
             ELSE IF b[i].status # "booked" THEN "not_booked" ELSE "none"

\* The early returns of cancel: "none" when none is taken.
CancelRejection(b, date, time, email, is_volunteer) ==
    LET i == Find(b, date, time)
    IN  IF i = 0 THEN "no_slot"
        ELSE IF is_volunteer
             THEN IF b[i].volunteer_email # email THEN "not_your_slot"
                  ELSE IF b[i].status = "booked" THEN "slot_is_booked"
                  ELSE "none"
             ELSE IF b[i].status # "booked" THEN "not_booked"
                  ELSE IF b[i].student_email # email THEN "not_your_booking"
                  ELSE "none"

\* AvailableRecord that resets the status to 'empty'.
AvailableRecord_StatusEmpty(rec, id) ==
    [rec EXCEPT !.status = "empty", !.event_id = id,
                !.student_email = Absent, !.subject = Absent,
                !.description = Absent, !.booked_at = Absent]

\* AvailableRecord that leaves the subject key in the dict.
AvailableRecord_KeepsSubject(rec, id) ==
    [rec EXCEPT !.status = "available", !.event_id = id,
                !.student_email = Absent, !.description = Absent,
                !.booked_at = Absent]

\* AvailableRecord that does not store the id of the recreated event.
AvailableRecord_KeepsEventId(rec, id) ==
    [rec EXCEPT !.status = "available",
                !.student_email = Absent, !.subject = Absent,
                !.description = Absent, !.booked_at = Absent]

\* The in-place reset of the booking dict by cancel: event_id takes whatever
\* create_event returned, and the four student keys are popped.
AvailableRecord(rec, id) ==
    [rec EXCEPT !.status = "available", !.event_id = id,
                !.student_email = Absent, !.subject = Absent,
                !.description = Absent, !.booked_at = Absent]

\* cancel(..., is_volunteer=True)
CancelVolunteer(date, time, email) ==
    LET b == stored
        i == Find(b, date, time)
        rej == CancelRejection(b, date, time, email, TRUE)
    IN  IF rej # "none"
        THEN Reject("cancel-volunteer", date, time, email, rej)
        ELSE \E dok \in OldEventOutcomes(calendar, b[i].event_id) :
               Finish("cancel-volunteer", date, time, email, "ok",
                      OldEventCalls(b[i].event_id, dok), RemoveAt(b, i), TRUE,
                      DeleteOldEvent(calendar, b[i].event_id, dok), nextId)

\* cancel(..., is_volunteer=False)
CancelBooking(date, time, email) ==
    LET b == stored
        i == Find(b, date, time)
        rej == CancelRejection(b, date, time, email, FALSE)
    IN  IF rej # "none"
        THEN Reject("cancel-booking", date, time, email, rej)
        ELSE \E dok \in OldEventOutcomes(calendar, b[i].event_id) :
             \E ok \in CreateOutcomes :
               LET cal1 == DeleteOldEvent(calendar, b[i].event_id, dok)
                   cal == CreateEvent(cal1, nextId, date, time, ok)
                   calls == OldEventCalls(b[i].event_id, dok) \o <<CreateCall(nextId, ok)>>
               IN  Finish("cancel-booking", date, time, email, "ok", calls,
                          [b EXCEPT ![i] = AvailableRecord(b[i], CreatedId(nextId, ok))],
                          TRUE, cal, IF ok THEN nextId + 1 ELSE nextId)

\* ---------------------------------------------------------------- strings
\* The characters of the date and time strings of the model, as ord() gives them.
Chars(s) ==
    CASE s = "2026-02-15" -> <<50, 48, 50, 54, 45, 48, 50, 45, 49, 53>>
      [] s = "2026-02-16" -> <<50, 48, 50, 54, 45, 48, 50, 45, 49, 54>>
      [] s = "2026-02-17" -> <<50, 48, 50, 54, 45, 48, 50, 45, 49, 55>>
      [] s = "09:30" -> <<48, 57, 58, 51, 48>>
      [] s = "10:00" -> <<49, 48, 58, 48, 48>>

\* Python's < on two strings, given as character sequences: the first
\* differing character decides, a proper prefix is smaller.
RECURSIVE SeqLess(_, _)
SeqLess(a, b) ==
    IF b = <<>> THEN FALSE
    ELSE IF a = <<>> THEN TRUE
    ELSE IF Head(a) # Head(b) THEN Head(a) < Head(b)
    ELSE SeqLess(Tail(a), Tail(b))

StrLess(s, t) == SeqLess(Chars(s), Chars(t))

\* The decimal numbers of a character sequence, split at a separator.
RECURSIVE SplitInts(_, _, _, _)
SplitInts(cs, sep, acc, out) ==
    IF cs = <<>> THEN Append(out, acc)
    ELSE IF Head(cs) = sep THEN SplitInts(Tail(cs), sep, 0, Append(out, acc))
    ELSE SplitInts(Tail(cs), sep, 10 * acc + (Head(cs) - 48), out)

\* datetime.strptime(date, '%Y-%m-%d') and strptime(time, '%H:%M'), as numbers
\* that order like the datetimes.
DateValue(d) ==
    LET p == SplitInts(Chars(d), 45, 0, <<>>) IN (p[1] * 12 + (p[2] - 1)) * 31 + (p[3] - 1)

TimeValue(t) ==
    LET p == SplitInts(Chars(t), 58, 0, <<>>) IN p[1] * 60 + p[2]

\* ---------------------------------------------------------------- view
\* The key=lambda x: (x['date'], x['time']) comparison of two bookings.
SortKeyLess(x, y) ==
    \/ StrLess(x.date, y.date)
    \/ x.date = y.date /\ StrLess(x.time, y.time)

\* The place of x in a sorted list: after every element that is not greater
\* (sorted is stable).
RECURSIVE InsertSorted(_, _)
InsertSorted(s, x) ==
    IF s = <<>> THEN <<x>>
    ELSE IF SortKeyLess(x, Head(s)) THEN <<x>> \o s
    ELSE <<Head(s)>> \o InsertSorted(Tail(s), x)

\* ViewSort that leaves the bookings in their stored order.
ViewSort_StoredOrder(b) == b

\* sorted(filtered, key=lambda x: (x['date'], x['time']))
RECURSIVE ViewSort(_)
ViewSort(b) ==
    IF b = <<>> THEN <<>>
    ELSE InsertSorted(ViewSort(SubSeq(b, 1, Len(b) - 1)), b[Len(b)])

\* ViewFilter that looks at the status filter only when no date is given.
ViewFilter_DateOrStatus(b, date, status) ==
    LET OnDate(x) == x.date = date
        InStatus(x) == x.status = status
    IN  IF Truthy(date) THEN SelectSeq(b, OnDate)
        ELSE IF Truthy(status) THEN SelectSeq(b, InStatus)
        ELSE b

\* The two filters of view: each applies when its argument is truthy.
ViewFilter(b, date, status) ==
    LET OnDate(x) == x.date = date
        InStatus(x) == x.status = status
        byDate == IF Truthy(date) THEN SelectSeq(b, OnDate) ELSE b
    IN  IF Truthy(status) THEN SelectSeq(byDate, InStatus) ELSE byDate

\* The dates of a list of bookings in the order of sorted(by_date.items()).
RECURSIVE SortedDates(_)
SortedDates(ds) ==
    IF ds = {} THEN <<>>
    ELSE LET m == CHOOSE d \in ds : \A e \in ds \ {d} : StrLess(d, e)
         IN  <<m>> \o SortedDates(ds \ {m})

\* The date groups view prints: by_date filled from the sorted bookings, then
\* printed in the order of its sorted items.
ViewGroups(filtered) ==
    LET sorted == ViewSort(filtered)
        dates == SortedDates({filtered[i].date : i \in 1..Len(filtered)})
    IN  [g \in 1..Len(dates) |->
            LET OnDate(x) == x.date = dates[g]
            IN  [date |-> dates[g], slots |-> SelectSeq(sorted, OnDate)]]

\* ViewSummary whose total counts the whole ledger.
ViewSummary_TotalOfLedger(b, filtered) ==
    LET Available(x) == x.status = "available"
        Booked(x) == x.status = "booked"
    IN  [available |-> Len(SelectSeq(filtered, Available)),
         booked |-> Len(SelectSeq(filtered, Booked)),
         total |-> Len(b)]

\* The Summary line of view.
ViewSummary(b, filtered) ==
    LET Available(x) == x.status = "available"
        Booked(x) == x.status = "booked"
    IN  [available |-> Len(SelectSeq(filtered, Available)),
         booked |-> Len(SelectSeq(filtered, Booked)),
         total |-> Len(filtered)]

\* What view prints for a ledger and a pair of filters.
ViewOutput(b, date, status) ==
    LET filtered == ViewFilter(b, date, status)
    IN  IF b = <<>>
        THEN [message |-> "no_bookings", groups |-> <<>>, summary |-> <<>>]
        ELSE IF filtered = <<>>
        THEN [message |-> "no_match", groups |-> <<>>, summary |-> <<>>]
        ELSE [message |-> "listing", groups |-> ViewGroups(filtered),
              summary |-> <<ViewSummary(b, filtered)>>]

\* The slots a view output lists, in the order printed.
RECURSIVE Listed(_)
Listed(groups) ==
    IF groups = <<>> THEN <<>>
    ELSE groups[1].slots \o Listed(Tail(groups))

\* view(date, status): prints, and touches neither the ledger nor the calendar.
View(date, status) ==
    LET out == ViewOutput(stored, date, status)
    IN  /\ bookings' = stored
        /\ UNCHANGED <<stored, calendar, nextId, limit, prebooking, students>>
        /\ last' = [op |-> "view", date |-> date, status |-> status,
                    outcome |-> out.message, output |-> out, calls |-> <<>>,
                    pre |-> stored, precal |-> calendar]

\* ---------------------------------------------------------------- setup
\* load_config without a clinic_config.json.
DefaultConfig == [student_calendar |-> Absent, clinic_calendar |-> Absent]

\* The calendars the account can have access to.
CalendarIds == {"primary", "clinic@x.com", "student@x.com"}

\* CalendarSync.get_calendars: the accessible calendars, [] when the listing raised.
GetCalendars(accessible, ok) == IF ok THEN accessible ELSE {}

\* The outcome of setup for the listed calendar ids.
SetupOutcome(student_calendar, clinic_calendar, ids) ==
    IF student_calendar \notin ids THEN "student_not_found"
    ELSE IF clinic_calendar \notin ids THEN "clinic_not_found"
    ELSE "ok"

\* SetupConfig that stores the student calendar as soon as it is found.
SetupConfig_StudentFirst(cfg, student_calendar, clinic_calendar, ids) ==
    IF student_calendar \notin ids THEN cfg
    ELSE IF clinic_calendar \notin ids
         THEN [cfg EXCEPT !.student_calendar = student_calendar]
    ELSE [student_calendar |-> student_calendar, clinic_calendar |-> clinic_calendar]

\* The configuration after setup: both ids are stored after both checks passed.
SetupConfig(cfg, student_calendar, clinic_calendar, ids) ==
    IF SetupOutcome(student_calendar, clinic_calendar, ids) = "ok"
    THEN [cfg EXCEPT !.student_calendar = student_calendar,
                     !.clinic_calendar = clinic_calendar]
    ELSE cfg

Setup(student_calendar, clinic_calendar, accessible, ok) ==
    LET ids == GetCalendars(accessible, ok)
    IN  /\ config' = SetupConfig(config, student_calendar, clinic_calendar, ids)
        /\ bookings' = stored
        /\ UNCHANGED <<stored, calendar, nextId, limit, prebooking, students>>
        /\ last' = [op |-> "setup", student_calendar |-> student_calendar,
                    clinic_calendar |-> clinic_calendar, listed |-> ids,
                    listing_ok |-> ok,
                    outcome |-> SetupOutcome(student_calendar, clinic_calendar, ids),
                    calls |-> <<>>, pre |-> stored, preconfig |-> config]

\* ---------------------------------------------------------------- specification
\* No bookings.json, an empty calendar, no command run yet.
Init ==
    /\ bookings = <<>>
    /\ stored = <<>>
    /\ calendar = {}
    /\ nextId = 1
    /\ limit = MaxEvents
    /\ last = [op |-> "none", date |-> "", time |-> "", email |-> "",
               outcome |-> "none", calls |-> <<>>, pre |-> <<>>, prebooked |-> <<>>]
    /\ prebooking = [k \in Keys |-> <<>>]
    /\ students = [k \in Keys |-> <<>>]
    /\ config = DefaultConfig
    /\ trail = <<>>

VolunteerCmd ==
    /\ \E d \in Dates, t \in Times, v \in Volunteers : Volunteer(d, t, v[1], v[2])
    /\ UNCHANGED <<config, trail>>

BookCmd ==
    /\ \E d \in Dates, t \in Times, s \in Subjects, ds \in Descriptions, e \in Students,
          now \in Timestamps : Book(d, t, s, ds, e, now)
    /\ UNCHANGED <<config, trail>>

CancelBookingCmd ==
    /\ \E d \in Dates, t \in Times, e \in Emails : CancelBooking(d, t, e)
    /\ UNCHANGED <<config, trail>>

CancelVolunteerCmd ==
    /\ \E d \in Dates, t \in Times, e \in Emails : CancelVolunteer(d, t, e)
    /\ UNCHANGED <<config, trail>>

Next == VolunteerCmd \/ BookCmd \/ CancelBookingCmd \/ CancelVolunteerCmd

Spec == Init /\ [][Next]_vars

\* ---------------------------------------------------------------- booking a slot twice
\* The same commands from the same start, in a run long enough for a slot to be
\* volunteered for and booked twice.
RebookInit ==
    /\ bookings = <<>>
    /\ stored = <<>>
    /\ calendar = {}
    /\ nextId = 1
    /\ limit = MaxRebookEvents
    /\ last = [op |-> "none", date |-> "", time |-> "", email |-> "",
               outcome |-> "none", calls |-> <<>>, pre |-> <<>>, prebooked |-> <<>>]
    /\ prebooking = [k \in Keys |-> <<>>]
    /\ students = [k \in Keys |-> <<>>]
    /\ config = DefaultConfig
    /\ trail = <<>>

RebookSpec == RebookInit /\ [][Next]_vars

\* ---------------------------------------------------------------- view on any ledger
\* The times and keys of the ledgers view is run on.
ViewTimes == {"09:30", "10:00"}
ViewKeys == Dates \X ViewTimes

\* A ledger in the making: the key and the status of each record, in stored order.
SlotLists ==
    {s \in UNION {[1..n -> ViewKeys \X {"available", "booked"}] : n \in 0..MaxSlots} :
        \A i, j \in 1..Len(s) : s[i][1] = s[j][1] => i = j}

\* The number of events created for a list of slots: one by volunteer, one
\* more by book.
RECURSIVE EventsOf(_)
EventsOf(s) ==
    IF s = <<>> THEN 0
    ELSE EventsOf(SubSeq(s, 1, Len(s) - 1)) + (IF s[Len(s)][2] = "booked" THEN 2 ELSE 1)

\* The record volunteer left for slot i of the list, and the one book made of it.
VolunteeredSlot(s, i) ==
    VolunteerRecord(s[i][1][1], s[i][1][2], "Ann", "ann@x.com",
                    EventsOf(SubSeq(s, 1, i - 1)) + 1)

BookedSlot(s, i) ==
    BookedRecord(VolunteeredSlot(s, i), "stu@x.com", "Loops", "need help",
                 EventsOf(SubSeq(s, 1, i)), "2026-02-01T09:00:00")

\* The ledger after volunteering for, and booking, each slot of the list in turn.
LedgerOf(s) ==
    [i \in 1..Len(s) |-> IF s[i][2] = "booked" THEN BookedSlot(s, i) ELSE VolunteeredSlot(s, i)]

\* The state after the commands that build the ledger, every calendar call
\* having succeeded.
ViewInit ==
    \E s \in SlotLists :
        /\ stored = LedgerOf(s)
        /\ bookings = stored
        /\ calendar = {[id |-> stored[i].event_id, date |-> stored[i].date,
                        time |-> stored[i].time] : i \in 1..Len(s)}
        /\ nextId = EventsOf(s) + 1
        /\ limit = MaxEvents
        /\ prebooking = [k \in ViewKeys |->
                            IF \E i \in 1..Len(s) : s[i] = <<k, "booked">>
                            THEN <<VolunteeredSlot(s, CHOOSE i \in 1..Len(s) : s[i][1] = k)>>
                            ELSE <<>>]
        /\ students = [k \in ViewKeys |->
                          IF \E i \in 1..Len(s) : s[i] = <<k, "booked">>
                          THEN <<BookedSlot(s, CHOOSE i \in 1..Len(s) : s[i][1] = k).student_email>>
                          ELSE <<>>]
        /\ last = [op |-> "none", date |-> "", time |-> "", email |-> "",
                   outcome |-> "none", calls |-> <<>>, pre |-> <<>>, prebooked |-> <<>>]
        /\ config = DefaultConfig
        /\ trail = <<>>

ViewCmd ==
    /\ \E d \in DateFilters, s \in StatusFilters : View(d, s)
    /\ UNCHANGED <<config, trail>>

ViewSpec == ViewInit /\ [][ViewCmd]_vars

\* ---------------------------------------------------------------- setup runs
SetupCmd ==
    /\ \E s \in CalendarIds, c \in CalendarIds, accessible \in SUBSET CalendarIds,
          ok \in BOOLEAN : Setup(s, c, accessible, ok)
    /\ UNCHANGED trail

SetupSpec == Init /\ [][SetupCmd]_vars

\* ---------------------------------------------------------------- lifecycle runs
\* The last command went through and every calendar call it made succeeded.
Succeeded(l) == l.outcome = "ok" /\ \A k \in 1..Len(l.calls) : l.calls[k].ok

\* One more command of the scenario, with the ledger before and after it.
Step(op, date, time, name, email, subject) ==
    /\ Succeeded(last')
    /\ trail' = Append(trail, [op |-> op, date |-> date, time |-> time, name |-> name,
                               email |-> email, subject |-> subject,
                               before |-> stored, after |-> stored'])
    /\ UNCHANGED config

\* volunteer for a key without a record, ...
LifecycleVolunteer ==
    /\ trail = <<>>
    /\ \E d \in Dates, t \in Times, v \in Volunteers :
          /\ StatusOf(stored, d, t) = "empty"
          /\ Volunteer(d, t, v[1], v[2])
          /\ Step("volunteer", d, t, v[1], v[2], Absent)

\* ... book it, ...
LifecycleBook ==
    /\ Len(trail) = 1
    /\ \E s \in Subjects, ds \in Descriptions, e \in Students, now \in Timestamps :
          /\ Book(trail[1].date, trail[1].time, s, ds, e, now)
          /\ Step("book", trail[1].date, trail[1].time, Absent, e, s)

\* ... cancel the booking as the student who made it, ...
LifecycleCancelBooking ==
    /\ Len(trail) = 2
    /\ CancelBooking(trail[1].date, trail[1].time, trail[2].email)
    /\ Step("cancel-booking", trail[1].date, trail[1].time, Absent, trail[2].email, Absent)

\* ... and cancel the slot as the volunteer who offered it.
LifecycleCancelVolunteer ==
    /\ Len(trail) = 3
    /\ CancelVolunteer(trail[1].date, trail[1].time, trail[1].email)
    /\ Step("cancel-volunteer", trail[1].date, trail[1].time, Absent, trail[1].email, Absent)

\* Any commands, then the four commands of the scenario.
LifecycleNext ==
    \/ trail = <<>> /\ Next
    \/ LifecycleVolunteer
    \/ LifecycleBook
    \/ LifecycleCancelBooking
    \/ LifecycleCancelVolunteer

LifecycleSpec == Init /\ [][LifecycleNext]_vars

\* The stored shape of the model's state.
TypeOK ==
    /\ bookings = stored
    /\ limit \in {MaxEvents, MaxRebookEvents}
    /\ nextId \in 1..(limit + 1)
    /\ \A e \in calendar : e.id \in 1..limit
    /\ \A i \in 1..Len(stored) :
         /\ stored[i].date \in Dates /\ stored[i].time \in Times
         /\ stored[i].status \in {"available", "booked"}
         /\ stored[i].event_id \in 0..limit

\* ---------------------------------------------------------------- reading the last command
\* The calendar calls of the last command, by function and result.
MadeCall(fn, ok) == \E k \in 1..Len(last.calls) : last.calls[k].fn = fn /\ last.calls[k].ok = ok

MadeAnyCall(fn) == MadeCall(fn, TRUE) \/ MadeCall(fn, FALSE)

\* The ledger, in memory and in the file, is what it was before the last command.
LedgerUntouched == bookings = last.pre /\ stored = last.pre

\* The status of the last command's key before and after the command.
StatusBefore == StatusOf(last.pre, last.date, last.time)
StatusAfter == StatusOf(stored, last.date, last.time)

\* The record of the last command's key before and after the command.
RecordBefore == last.pre[Find(last.pre, last.date, last.time)]
RecordAfter == stored[Find(stored, last.date, last.time)]

\* The live events of the calendar that mirror a key.
LiveEvents(date, time) == {e \in calendar : e.date = date /\ e.time = time}

\* ---------------------------------------------------------------- claims

\* C1: for volunteer, book and cancel-booking, when the createEvent call of the
\* command fails the ledger (in memory and in the file) after the command is
\* the ledger before it.
C1_CreateFailureKeepsLedger ==
    (last.op \in {"volunteer", "book", "cancel-booking"} /\ MadeCall("create", FALSE))
        => LedgerUntouched

\* C2: for book, cancel-booking and cancel-volunteer, when the deleteEvent call
\* of the command fails the command aborts and the ledger after the command
\* is the ledger before it.
C2_DeleteFailureKeepsLedger ==
    (last.op \in {"book", "cancel-booking", "cancel-volunteer"} /\ MadeCall("delete", FALSE))
        => LedgerUntouched

\* C3: abort-first: in book and cancel-booking a failed deleteEvent is followed
\* by no createEvent call, and createEvent for a slot that has an old remote
\* event comes only after that event's deleteEvent succeeded.
C3_NoCreateAfterFailedDelete ==
    (last.op \in {"book", "cancel-booking"} /\ MadeAnyCall("create"))
        => /\ ~MadeCall("delete", FALSE)
           /\ TruthyId(RecordBefore.event_id) => MadeCall("delete", TRUE)

\* C4: after every command each (date, time) slot has at most one live remote
\* event in the calendar service.
C4_AtMostOneLiveEventPerSlot ==
    \A k \in Keys : Cardinality(LiveEvents(k[1], k[2])) <= 1

\* C5: every Booked record has student_email, subject and booked_at present,
\* and every Available record has student_email, subject, description and
\* booked_at absent.
C5_StudentFieldsFollowStatus ==
    \A b \in {bookings, stored} : \A i \in 1..Len(b) :
        /\ b[i].status = "booked" =>
              /\ b[i].student_email # Absent
              /\ b[i].subject # Absent
              /\ b[i].booked_at # Absent
        /\ b[i].status = "available" =>
              /\ b[i].student_email = Absent
              /\ b[i].subject = Absent
              /\ b[i].description = Absent
              /\ b[i].booked_at = Absent

\* C5 witness: a booking was cancelled, so a record that carried the student
\* fields is Available again.
C5_Witness ==
    /\ last.op = "cancel-booking" /\ last.outcome = "ok"
    /\ RecordBefore.status = "booked" /\ RecordBefore.subject \in Subjects
    /\ RecordAfter.status = "available"

\* C6: every stored record, Available or Booked, holds a present event id.
C6_EventIdPresent ==
    \A b \in {bookings, stored} : \A i \in 1..Len(b) : b[i].event_id # NoEvent

\* C7: over one command the status of the command's key is unchanged or makes
\* one of Empty->Available (volunteer), Available->Booked (book),
\* Booked->Available (cancel-booking), Available->Empty (cancel-volunteer).
C7_OnlyLifecycleTransitions ==
    \/ last.op = "none"
    \/ StatusBefore = StatusAfter
    \/ <<last.op, StatusBefore, StatusAfter>> \in
          { <<"volunteer", "empty", "available">>,
            <<"book", "available", "booked">>,
            <<"cancel-booking", "booked", "available">>,
            <<"cancel-volunteer", "available", "empty">> }

\* C8: cancel-volunteer on a Booked slot is rejected for every email: the
\* record stays unchanged with status Booked and no calendar call is made.
C8_CancelVolunteerOnBookedRejected ==
    (last.op = "cancel-volunteer" /\ StatusBefore = "booked")
        => /\ last.outcome \in {"not_your_slot", "slot_is_booked"}
           /\ LedgerUntouched
           /\ StatusAfter = "booked"
           /\ last.calls = <<>>

\* C8 witness: the slot's own volunteer tried to cancel a Booked slot.
C8_Witness ==
    /\ last.op = "cancel-volunteer" /\ StatusBefore = "booked"
    /\ RecordBefore.volunteer_email = last.email

\* C9: volunteer on a key that already has a record is always rejected with
\* the ledger unchanged and no calendar call: as a duplicate for the same
\* email, with a distinct outcome for a different email.
C9_VolunteerOnExistingRejected ==
    (last.op = "volunteer" /\ StatusBefore # "empty")
        => /\ LedgerUntouched
           /\ last.calls = <<>>
           /\ last.outcome = IF RecordBefore.volunteer_email = last.email
                             THEN "already_volunteered" ELSE "slot_has_volunteer"

\* C10: a cancel-booking that succeeds (its createEvent returned an id) leaves
\* the record as it was before the booking in every field but the event id,
\* which is an id that neither the pre-booking record nor the booked record
\* held.
C10_BookThenCancelRestores ==
    (last.op = "cancel-booking" /\ last.outcome = "ok" /\ MadeCall("create", TRUE))
        => /\ Len(last.prebooked) = 1
           /\ RecordAfter = [last.prebooked[1] EXCEPT !.event_id = RecordAfter.event_id]
           /\ RecordAfter.status = "available"
           /\ TruthyId(RecordAfter.event_id)
           /\ RecordAfter.event_id # last.prebooked[1].event_id
           /\ RecordAfter.event_id # RecordBefore.event_id

\* C10 witness: a booking made by a student was cancelled by that student and
\* the volunteer event was recreated.
C10_Witness ==
    /\ last.op = "cancel-booking" /\ last.outcome = "ok" /\ MadeCall("create", TRUE)
    /\ RecordBefore.status = "booked" /\ RecordBefore.student_email = last.email
    /\ Len(last.prebooked) = 1 /\ last.prebooked[1].status = "available"
    /\ RecordAfter.volunteer_email = last.prebooked[1].volunteer_email

\* C11 as stated: book on a key without a record is rejected with the outcome
\* "no volunteer available", makes no calendar call and leaves the ledger
\* unchanged.
C11_BookOnMissingSaysNoVolunteer ==
    (last.op = "book" /\ StatusBefore = "empty")
        => /\ last.outcome = "no_volunteer"
           /\ last.calls = <<>>
           /\ LedgerUntouched

\* C11 as amended: book on a key without a record is rejected with the outcome
\* "no slot found", makes no calendar call and leaves the ledger unchanged.
C11_BookOnMissingSaysNoSlot ==
    (last.op = "book" /\ StatusBefore = "empty")
        => /\ last.outcome = "no_slot"
           /\ last.calls = <<>>
           /\ LedgerUntouched

\* C11 witness: a student tried to book a key nobody volunteered for, while
\* the ledger held a record of another key.
C11_Witness ==
    /\ last.op = "book" /\ StatusBefore = "empty"
    /\ Len(last.pre) > 0

\* C12: book on a Booked slot is rejected for every student email: the record
\* (student_email, subject, description, booked_at, event id) is unchanged and
\* no calendar call is made; so between two cancels of a slot at most one
\* student books it: its student is never replaced without an intervening
\* cancel-booking.
C12_StudentNeverReplaced ==
    /\ (last.op = "book" /\ StatusBefore = "booked")
          => /\ last.outcome = "already_booked"
             /\ last.calls = <<>>
             /\ LedgerUntouched
             /\ RecordAfter = RecordBefore
    /\ (last.op # "none" /\ StatusBefore = "booked" /\ StatusAfter = "booked")
          => RecordAfter.student_email = RecordBefore.student_email
    /\ \A k \in Keys : \A i \in 1..Len(students[k]) : students[k][i] = students[k][1]

\* C13: cancel-booking is rejected when the slot is missing, is not Booked or
\* the email is not the slot's student_email; cancel-volunteer is rejected
\* when the slot is missing or the email is not the slot's volunteer_email;
\* a rejection leaves the ledger unchanged and makes no calendar call.
C13_OwnershipChecks ==
    LET rejected == last.outcome # "ok" /\ last.calls = <<>> /\ LedgerUntouched
    IN  /\ (last.op = "cancel-booking" /\ StatusBefore = "empty") => rejected
        /\ (last.op = "cancel-booking" /\ StatusBefore = "available") => rejected
        /\ (last.op = "cancel-booking" /\ StatusBefore = "booked"
               /\ RecordBefore.student_email # last.email) => rejected
        /\ (last.op = "cancel-volunteer" /\ StatusBefore = "empty") => rejected
        /\ (last.op = "cancel-volunteer" /\ StatusBefore # "empty"
               /\ RecordBefore.volunteer_email # last.email) => rejected

\* C13 witness: somebody other than the student tried to cancel a booking.
C13_Witness ==
    /\ last.op = "cancel-booking" /\ StatusBefore = "booked"
    /\ RecordBefore.student_email # last.email

\* C14: the ledger holds at most one record per (date, time) key.
C14_OneRecordPerKey ==
    \A b \in {bookings, stored} : \A i, j \in 1..Len(b) :
        (b[i].date = b[j].date /\ b[i].time = b[j].time) => i = j

\* C14 witness: a volunteer took over a key that already had a record, next
\* to a record of another key.
C14_Witness ==
    /\ last.op = "volunteer" /\ last.outcome = "ok" /\ StatusBefore # "empty"
    /\ Len(stored) = 2

\* C15: every stored record has status Available or Booked, never Empty, so
\* view with the status filter 'empty' lists no slot, whatever the date filter.
C15_NoStoredEmptyStatus ==
    /\ \A b \in {bookings, stored} : \A i \in 1..Len(b) :
          b[i].status \in {"available", "booked"}
    /\ \A d \in DateFilters : Listed(ViewOutput(stored, d, "empty").groups) = <<>>

\* C15 witness: the ledger holds an Available record that was Booked before
\* and a view without a status filter lists it.
C15_Witness ==
    /\ last.op = "cancel-booking" /\ last.outcome = "ok"
    /\ RecordAfter.status = "available"
    /\ Listed(ViewOutput(stored, Absent, Absent).groups) # <<>>

\* ---------------------------------------------------------------- view claims
\* The records of a ledger that match the date filter, the status filter.
OnDateFilter(b, d) == {b[i] : i \in {j \in 1..Len(b) : d = Absent \/ b[j].date = d}}
InStatusFilter(b, s) == {b[i] : i \in {j \in 1..Len(b) : s = Absent \/ b[j].status = s}}

\* The records the last view listed.
LastListed == Listed(last.output.groups)
LastListedSet == {LastListed[i] : i \in 1..Len(LastListed)}

\* C16: the slots view reports are exactly the slots with date = D (if D is
\* given) and status = S (if S is given); with both given it is the
\* intersection of the two single-filter results.
C16_ViewFilters ==
    last.op = "view" =>
        /\ LastListedSet = OnDateFilter(stored, last.date) \cap InStatusFilter(stored, last.status)
        /\ LET byDate == Listed(ViewOutput(stored, last.date, Absent).groups)
               byStatus == Listed(ViewOutput(stored, Absent, last.status).groups)
           IN  LastListedSet = {byDate[i] : i \in 1..Len(byDate)}
                                  \cap {byStatus[i] : i \in 1..Len(byStatus)}

\* C16 witness: a view with both filters given that lists some slots and
\* leaves out a slot of the date and a slot of the status.
C16_Witness ==
    /\ last.op = "view" /\ last.date # Absent /\ last.status # Absent
    /\ LastListedSet # {}
    /\ OnDateFilter(stored, last.date) \ LastListedSet # {}
    /\ InStatusFilter(stored, last.status) \ LastListedSet # {}

\* C17: view prints the date groups in ascending date order and, within a
\* group, the slots in ascending time order, each filtered slot exactly once.
C17_ViewSorted ==
    last.op = "view" =>
        LET groups == last.output.groups
        IN  /\ \A g, h \in 1..Len(groups) :
                  g < h => DateValue(groups[g].date) < DateValue(groups[h].date)
            /\ \A g \in 1..Len(groups) : \A i, j \in 1..Len(groups[g].slots) :
                  /\ groups[g].slots[i].date = groups[g].date
                  /\ i < j => TimeValue(groups[g].slots[i].time)
                                 < TimeValue(groups[g].slots[j].time)
            /\ Len(LastListed) = Len(ViewFilter(stored, last.date, last.status))
            /\ \A i, j \in 1..Len(LastListed) : LastListed[i] = LastListed[j] => i = j
            /\ LastListedSet = OnDateFilter(stored, last.date)
                                  \cap InStatusFilter(stored, last.status)

\* C17 witness: an unfiltered view of a ledger stored with the later date
\* first and, within a date, the later time first.
C17_Witness ==
    /\ last.op = "view" /\ last.date = Absent /\ last.status = Absent
    /\ Len(stored) = 3
    /\ DateValue(stored[1].date) > DateValue(stored[3].date)
    /\ stored[1].date = stored[2].date
    /\ TimeValue(stored[1].time) > TimeValue(stored[2].time)
    /\ Len(last.output.groups) = 2

\* C18: view changes neither the ledger nor bookings.json, calls neither
\* createEvent nor deleteEvent, and its summary counts the filtered Available
\* slots, the filtered Booked slots and the filtered slots.
C18_ViewReadOnly ==
    last.op = "view" =>
        /\ bookings = last.pre /\ stored = last.pre
        /\ calendar = last.precal
        /\ last.calls = <<>>
        /\ \A k \in 1..Len(last.output.summary) :
              LET f == OnDateFilter(stored, last.date) \cap InStatusFilter(stored, last.status)
                  sm == last.output.summary[k]
              IN  /\ sm.available = Cardinality({r \in f : r.status = "available"})
                  /\ sm.booked = Cardinality({r \in f : r.status = "booked"})
                  /\ sm.total = Cardinality(f)

\* C18 witness: a view by date that printed a summary with Available and
\* Booked slots, of a ledger that holds slots of another date too.
C18_Witness ==
    /\ last.op = "view" /\ last.date # Absent
    /\ Len(last.output.summary) = 1
    /\ last.output.summary[1].available > 0 /\ last.output.summary[1].booked > 0
    /\ last.output.summary[1].total < Len(stored)

\* ---------------------------------------------------------------- setup claim
\* C19: setup stores both calendar ids only if both are in the set that
\* listCalendars returned; if either is absent (also when the listing failed
\* and returned nothing) setup is rejected and the stored configuration is
\* what it was.
C19_SetupStoresBothOrNothing ==
    last.op = "setup" =>
        IF {last.student_calendar, last.clinic_calendar} \subseteq last.listed
        THEN /\ last.outcome = "ok"
             /\ config = [student_calendar |-> last.student_calendar,
                          clinic_calendar |-> last.clinic_calendar]
        ELSE /\ last.outcome # "ok"
             /\ config = last.preconfig

\* C19 witness: with a configuration already stored, setup was given a student
\* calendar that is listed and a clinic calendar that is not.
C19_Witness ==
    /\ last.op = "setup"
    /\ last.student_calendar \in last.listed /\ last.clinic_calendar \notin last.listed
    /\ last.preconfig.student_calendar \notin {Absent, last.student_calendar}

\* ---------------------------------------------------------------- lifecycle claim
\* The record of the scenario's key after command n of the scenario.
TrailRecord(n) == trail[n].after[Find(trail[n].after, trail[1].date, trail[1].time)]
TrailStatus(n) == StatusOf(trail[n].after, trail[1].date, trail[1].time)

\* C20: from a key without a record and with every calendar call succeeding,
\* volunteer, book, cancel-booking by the student and cancel-volunteer by the
\* volunteer take the key through Available, Booked with the given subject,
\* Available with the same volunteer name and email, and no record; the ledger
\* is then the starting ledger and a view of the date lists no slot of the key.
C20_FullLifecycle ==
    /\ Len(trail) >= 1 =>
          /\ TrailStatus(1) = "available"
          /\ TrailRecord(1).volunteer_name = trail[1].name
          /\ TrailRecord(1).volunteer_email = trail[1].email
    /\ Len(trail) >= 2 =>
          /\ TrailStatus(2) = "booked"
          /\ TrailRecord(2).subject = trail[2].subject
          /\ TrailRecord(2).student_email = trail[2].email
    /\ Len(trail) >= 3 =>
          /\ TrailStatus(3) = "available"
          /\ TrailRecord(3).volunteer_name = trail[1].name
          /\ TrailRecord(3).volunteer_email = trail[1].email
    /\ Len(trail) >= 4 =>
          /\ TrailStatus(4) = "empty"
          /\ stored = trail[4].after
          /\ trail[4].after = trail[1].before
          /\ \A s \in StatusFilters :
                LET listed == Listed(ViewOutput(stored, trail[1].date, s).groups)
                IN  \A i \in 1..Len(listed) : listed[i].time # trail[1].time

\* C20 witness: the four commands were run, the student being somebody other
\* than the volunteer.
C20_Witness ==
    /\ Len(trail) = 4
    /\ trail[4].op = "cancel-volunteer"
    /\ trail[2].email # trail[1].email

\* ---------------------------------------------------------------- frame and mirror claims
\* The record of a key in a ledger, as <<record>>, or <<>> when it has none.
RecordOf(b, date, time) ==
    IF Find(b, date, time) = 0 THEN <<>> ELSE <<b[Find(b, date, time)]>>

\* C21: a command on key (d, t) leaves the records of all other keys
\* unchanged; book and cancel-booking leave the date, time, volunteer_name and
\* volunteer_email of their record unchanged; and from its creation by
\* volunteer until its removal by cancel-volunteer a slot keeps its volunteer
\* name and email.
C21_FrameAndVolunteerIdentity ==
    last.op # "none" =>
        /\ \A k \in Keys :
              k # <<last.date, last.time>> =>
                  RecordOf(stored, k[1], k[2]) = RecordOf(last.pre, k[1], k[2])
        /\ (last.op \in {"book", "cancel-booking"} /\ StatusBefore # "empty") =>
              /\ StatusAfter # "empty"
              /\ RecordAfter.date = RecordBefore.date
              /\ RecordAfter.time = RecordBefore.time
              /\ RecordAfter.volunteer_name = RecordBefore.volunteer_name
              /\ RecordAfter.volunteer_email = RecordBefore.volunteer_email
        /\ (StatusBefore # "empty" /\ StatusAfter # "empty") =>
              /\ RecordAfter.volunteer_name = RecordBefore.volunteer_name
              /\ RecordAfter.volunteer_email = RecordBefore.volunteer_email
        /\ (StatusBefore # "empty" /\ StatusAfter = "empty") => last.op = "cancel-volunteer"

\* C22: after every command the event id of each record is the id of a live
\* remote event, and every live remote event is referenced by exactly one
\* record.
C22_LedgerMirrorsCalendar ==
    /\ \A i \in 1..Len(stored) : \E e \in calendar : e.id = stored[i].event_id
    /\ \A e \in calendar :
          Cardinality({i \in 1..Len(stored) : stored[i].event_id = e.id}) = 1

====
